---- MODULE Spec2Model ----
(***************************************************************************)
(* The home page of the blog: HomePageContent (search box, debounced       *)
(* search filter, `search` query parameter) composed with ArticlesList     *)
(* (topic selection, topic filter, pagination, `topics` query parameter,   *)
(* redirect to /404).                                                      *)
(*                                                                         *)
(* Strings are sequences of one-character strings.  Arrays of articles     *)
(* held in component state are sequences of references into `articles`     *)
(* (an article's position, which also stands for its unique slug).         *)
(***************************************************************************)
EXTENDS Integers, Sequences, FiniteSets, TLC

(***************************************************************************)
(* Bounds of the model.                                                    *)
(***************************************************************************)
MaxArticles == 2      \* length of the short collections
MaxBlocks == 1        \* pages of padding articles in the long collections
MaxPushes == 2        \* router.push("/404") requests followed in one run

(***************************************************************************)
(* Program constants.                                                      *)
(***************************************************************************)
PageSize == 10

(***************************************************************************)
(* Strings.                                                                *)
(***************************************************************************)
Comma == ","

\* UTF-16 code unit of the characters the model uses
CharCode(c) ==
  CASE c = "," -> 44
    [] c = "A" -> 65
    [] c = "B" -> 66
    [] c = "a" -> 97
    [] c = "b" -> 98
    [] c = "x" -> 120
    [] c = "y" -> 121
    [] c = "z" -> 122

\* String.prototype.toLowerCase on one character
LowerChar(c) ==
  CASE c = "A" -> "a"
    [] c = "B" -> "b"
    [] OTHER -> c

ToLowerCase(s) == [i \in 1..Len(s) |-> LowerChar(s[i])]

\* String.prototype.includes
Includes(s, sub) ==
  \E i \in 0..(Len(s) - Len(sub)) : SubSeq(s, i + 1, i + Len(sub)) = sub

\* Array.prototype.includes
ArrayIncludes(arr, x) == \E i \in 1..Len(arr) : arr[i] = x

\* String.prototype.split(",")
RECURSIVE Split(_)
Split(s) ==
  IF \A i \in 1..Len(s) : s[i] # Comma
    THEN << s >>
    ELSE LET k == CHOOSE i \in 1..Len(s) :
                    s[i] = Comma /\ \A j \in 1..(i - 1) : s[j] # Comma
         IN  << SubSeq(s, 1, k - 1) >> \o Split(SubSeq(s, k + 1, Len(s)))

\* Array.prototype.join(",")
RECURSIVE Join(_)
Join(arr) ==
  IF arr = << >> THEN << >>
  ELSE IF Len(arr) = 1 THEN arr[1]
  ELSE arr[1] \o << Comma >> \o Join(Tail(arr))

\* the default comparison of Array.prototype.sort: by UTF-16 code units
RECURSIVE StringLess(_, _)
StringLess(s, t) ==
  IF s = << >> THEN t # << >>
  ELSE IF t = << >> THEN FALSE
  ELSE IF s[1] # t[1] THEN CharCode(s[1]) < CharCode(t[1])
  ELSE StringLess(Tail(s), Tail(t))

\* Array.from(set).sort()
RECURSIVE SortStrings(_)
SortStrings(S) ==
  IF S = {} THEN << >>
  ELSE LET x == CHOOSE e \in S : TRUE
           rest == SortStrings(S \ {x})
           \* x goes after the strings that sort before it
           k == Cardinality({ i \in 1..Len(rest) : StringLess(rest[i], x) })
       IN  SubSeq(rest, 1, k) \o << x >> \o SubSeq(rest, k + 1, Len(rest))

(***************************************************************************)
(* Optional values: a query parameter (URLSearchParams.get gives null when *)
(* absent) and an article's optional description.                          *)
(***************************************************************************)
Absent == [present |-> FALSE, value |-> << >>]
Present(s) == [present |-> TRUE, value |-> s]

\* JavaScript truthiness of string | null | undefined
Truthy(p) == p.present /\ p.value # << >>

(***************************************************************************)
(* The inputs: article collections and locations the page is opened with.  *)
(***************************************************************************)
TopicX == << "x" >>
TopicY == << "y" >>
TopicZ == << "z" >>      \* a topic no article carries

ArticlePool ==
  { [slug |-> 1, title |-> << "A", "b" >>, description |-> Absent,
     topics |-> << TopicX >>],
    [slug |-> 2, title |-> << "a" >>, description |-> Present(<< "B" >>),
     topics |-> << TopicX, TopicY >>],
    [slug |-> 3, title |-> << "A" >>, description |-> Present(<< >>),
     topics |-> << TopicY >>] }

\* the i-th article of the padding of a long collection
PadArticle(i) ==
  [slug |-> Cardinality(ArticlePool) + i, title |-> << "A", "b" >>,
   description |-> Absent, topics |-> << TopicX >>]

\* the i-th of the topics that fill the topic bar of a wide article
WideTopic(i) ==
  LET letters == << "A", "B", "a", "b", "x" >>
  IN  << letters[((i - 1) \div 5) + 1], letters[((i - 1) % 5) + 1] >>

\* an article with one topic more than a page of topic buttons; its last
\* two topics in sorted order are the pool's
WideArticle ==
  [slug |-> 1, title |-> << "A" >>, description |-> Absent,
   topics |-> << TopicY, TopicX >> \o
              [i \in 1..(PageSize - 1) |-> WideTopic(i)]]

UniqueSlugs(seq) ==
  \A i, j \in 1..Len(seq) : seq[i].slug = seq[j].slug => i = j

\* every collection of at most MaxArticles pool articles, and collections of
\* more than one page: a pool article, then whole pages of padding; slugs are
\* unique in a collection
ShortCollections ==
  { seq \in UNION { [1..n -> ArticlePool] : n \in 0..MaxArticles } :
      UniqueSlugs(seq) }

LongCollections ==
  { << first >> \o [i \in 1..(blocks * PageSize) |-> PadArticle(i)] :
      first \in { a \in ArticlePool : Len(a.topics) > 1 },
      blocks \in 1..MaxBlocks }

WideCollections == { << WideArticle >> }

ArticleCollections ==
  ShortCollections \cup LongCollections \cup WideCollections

\* the topics whose buttons the user clicks
TopicPool == { << >>, TopicX, TopicY, TopicZ }

\* what the user can have in the search box
TermPool == { << >>, << "a", "B" >>, << "b" >> }

SearchParamPool == { Absent, Present(<< "a", "B" >>) }

TopicsParamPool ==
  { Absent,
    Present(<< >>),
    Present(<< "y", ",", "x" >>),
    Present(<< "x", ",", "x" >>),
    Present(<< ",", "x" >>),
    Present(<< "z" >>) }

(***************************************************************************)
(* State.                                                                  *)
(***************************************************************************)
VARIABLES
  articles,          \* HomePageContent's prop: the full collection
  location,          \* window.location.search: [search, topics]
  pendingUrl,        \* the URL of the latest router.replace not yet committed
  phase,             \* "constructed", "hydrating" (first effects ran), "ready"
  searchTerm,        \* HomePageContent state
  homeFiltered,      \* HomePageContent state filteredArticles (references)
  homeFilteredIsProp,\* whether that state still holds the `articles` array itself
  timeouts,          \* the terms of the debounce's pending setTimeout tasks
  selectedTopics,    \* ArticlesList state
  visibleCount,      \* ArticlesList state
  visibleTopicsCount,\* ArticlesList state
  initialized,       \* ArticlesList state
  filteredArticles,  \* ArticlesList's memoized filteredArticles (references)
  notFoundPushes,    \* number of router.push("/404") calls so far
  lastAction,        \* history: the last handler that ran, [op, arg]
  replaced,          \* history: the URLs it handed to router.replace, in order
  before             \* history: what the last handler overwrote

vars == << articles, location, pendingUrl, phase, searchTerm, homeFiltered,
           homeFilteredIsProp, timeouts, selectedTopics, visibleCount,
           visibleTopicsCount, initialized, filteredArticles, notFoundPushes,
           lastAction, replaced, before >>

NoUrl == [pending |-> FALSE, search |-> Absent, topics |-> Absent]

\* history of a handler that writes none of the fields below; `original`
\* holds, after the second of two toggles in a row of one topic, the
\* selection the first of them started from (as a one-element sequence);
\* `cancelled` tells that a change of searchTerm found a timer pending
NoBefore ==
  [selectedTopics |-> << >>, visibleCount |-> 0, homeFiltered |-> << >>,
   original |-> << >>, cancelled |-> FALSE]

\* a router.replace(url) call of the search effect or of the topics effect
Written(effect, url) ==
  [by |-> effect, search |-> url.search, topics |-> url.topics]

(***************************************************************************)
(* HomePageContent: the search filter.                                     *)
(***************************************************************************)
AllRefs == [i \in 1..Len(articles) |-> i]

\* SearchMatches without the two toLowerCase calls on the term
SearchMatchesCaseSensitive(article, term) ==
  \/ Includes(ToLowerCase(article.title), term)
  \/ /\ Truthy(article.description)
     /\ Includes(ToLowerCase(article.description.value), term)

\* the predicate handed to articles.filter
SearchMatches(article, term) ==
  \/ Includes(ToLowerCase(article.title), ToLowerCase(term))
  \/ /\ Truthy(article.description)
     /\ Includes(ToLowerCase(article.description.value), ToLowerCase(term))

\* HandleSearch filtering the filteredArticles state instead of the prop
HandleSearchNarrowing(term) ==
  SelectSeq(homeFiltered, LAMBDA r : SearchMatches(articles[r], term))

\* the value the debounced callback hands to setFilteredArticles
HandleSearch(term) ==
  IF term = << >>
    THEN AllRefs
    ELSE SelectSeq(AllRefs, LAMBDA r : SearchMatches(articles[r], term))

\* an initial read that leaves searchTerm as constructed
InitialSearchIgnored(param) == << >>

\* params.get("search") ?? ""
InitialSearch(param) == IF param.present THEN param.value ELSE << >>

\* clearTimeout in a debounce whose timer variable is local to each call
ClearTimeoutOfFreshTimer(queue) == queue

\* clearTimeout(timer): the closure's timer is the task it scheduled last
ClearTimeout(queue) ==
  IF queue = << >> THEN queue ELSE SubSeq(queue, 1, Len(queue) - 1)

\* a call of the debounced handleSearch: clearTimeout, then setTimeout
Debounced(queue, term) == Append(ClearTimeout(queue), term)

\* the URL the search effect hands to router.replace
SearchUrl(term) ==
  [pending |-> TRUE,
   search |-> IF term # << >> THEN Present(term) ELSE Absent,
   topics |-> location.topics]

(***************************************************************************)
(* ArticlesList: derived values of one render.                             *)
(***************************************************************************)
AllTopics(arts) ==
  SortStrings(UNION { { articles[arts[i]].topics[j] :
                          j \in 1..Len(articles[arts[i]].topics) } :
                      i \in 1..Len(arts) })

\* FilterByTopics with selectedTopics.some in place of selectedTopics.every
FilterByAnyTopic(arts, selected) ==
  IF Len(selected) = 0
    THEN arts
    ELSE SelectSeq(arts, LAMBDA r :
           \E k \in 1..Len(selected) :
             ArrayIncludes(articles[r].topics, selected[k]))

\* FilterByTopics whose filter starts at the second article
FilterByTopicsSkippingFirst(arts, selected) ==
  IF Len(selected) = 0 \/ Len(arts) = 0
    THEN arts
    ELSE SelectSeq(Tail(arts), LAMBDA r :
           \A k \in 1..Len(selected) :
             ArrayIncludes(articles[r].topics, selected[k]))

\* the memoized filteredArticles of a render
FilterByTopics(arts, selected) ==
  IF Len(selected) = 0
    THEN arts
    ELSE SelectSeq(arts, LAMBDA r :
           \A k \in 1..Len(selected) :
             ArrayIncludes(articles[r].topics, selected[k]))

\* slice(0, n) keeping one element too many
SliceOneMore(arr, n) ==
  SubSeq(arr, 1, IF n + 1 < Len(arr) THEN n + 1 ELSE Len(arr))

Slice(arr, n) == SubSeq(arr, 1, IF n < Len(arr) THEN n ELSE Len(arr))

\* the articles rendered as cards
DisplayedArticles == Slice(filteredArticles, visibleCount)

DisplayedTopics == Slice(AllTopics(homeFiltered), visibleTopicsCount)
ExtraTopics ==
  SelectSeq(selectedTopics, LAMBDA t : ~ArrayIncludes(DisplayedTopics, t))
\* topicsToShow without the selected topics that are not displayed
TopicsToShowDisplayedOnly == DisplayedTopics

TopicsToShow == DisplayedTopics \o ExtraTopics

\* the initialization effect without its `if (!initialized)` test
TopicsFromLocationEveryTime(isInitialized, param, current) ==
  IF Truthy(param) THEN Split(param.value) ELSE current

\* the initialization effect: the value of selectedTopics after it ran
TopicsFromLocation(isInitialized, param, current) ==
  IF ~isInitialized /\ Truthy(param) THEN Split(param.value) ELSE current

\* the topics effect writing the parameter even for an empty selection
TopicsUrlNeverDeleting(selected) ==
  [pending |-> TRUE,
   search |-> location.search,
   topics |-> Present(Join(selected))]

\* the URL the topics effect hands to router.replace
TopicsUrl(selected) ==
  [pending |-> TRUE,
   search |-> location.search,
   topics |-> IF Len(selected) # 0 THEN Present(Join(selected)) ELSE Absent]

\* NoResultsRedirect without the articles.length > 0 test
NoResultsRedirectAnySource(isInitialized, arts, filtered) ==
  isInitialized /\ Len(filtered) = 0

\* the condition of the no-results effect
NoResultsRedirect(isInitialized, arts, filtered) ==
  isInitialized /\ Len(arts) > 0 /\ Len(filtered) = 0

\* ToggleNext adding the topic in front: [topic, ...prev]
ToggleNextPrepending(prev, topic) ==
  IF ArrayIncludes(prev, topic)
    THEN SelectSeq(prev, LAMBDA t : t # topic)
    ELSE << topic >> \o prev

\* the updater toggleTopic hands to setSelectedTopics
ToggleNext(prev, topic) ==
  IF ArrayIncludes(prev, topic)
    THEN SelectSeq(prev, LAMBDA t : t # topic)
    ELSE Append(prev, topic)

(***************************************************************************)
(* Initial state: both components constructed (useState initial values),   *)
(* first render done, no effect run yet.                                   *)
(***************************************************************************)
Init ==
  /\ articles \in ArticleCollections
  /\ location \in [search : SearchParamPool, topics : TopicsParamPool]
  /\ pendingUrl = NoUrl
  /\ phase = "constructed"
  /\ searchTerm = << >>
  /\ homeFiltered = AllRefs
  /\ homeFilteredIsProp = TRUE
  /\ timeouts = << >>
  /\ selectedTopics = << >>
  /\ visibleCount = PageSize
  /\ visibleTopicsCount = PageSize
  /\ initialized = FALSE
  /\ filteredArticles = AllRefs
  /\ notFoundPushes = 0
  /\ lastAction = [op |-> "construct", arg |-> << >>]
  /\ replaced = << >>
  /\ before = NoBefore

(***************************************************************************)
(* Mount.  React runs the effects of the first render, children first:     *)
(* ArticlesList reads `topics` and sets initialized (its two other effects *)
(* see initialized = false); HomePageContent reads `search`, calls         *)
(* handleSearch("") and writes the location for searchTerm = "".  The      *)
(* state updates are applied together and both components render again.    *)
(***************************************************************************)
MountEffects ==
  /\ phase = "constructed"
  /\ LET selected ==
           TopicsFromLocation(initialized, location.topics, selectedTopics)
     IN  /\ selectedTopics' = selected
         /\ initialized' = TRUE
         /\ searchTerm' = InitialSearch(location.search)
         /\ timeouts' = Debounced(timeouts, searchTerm)
         /\ pendingUrl' = SearchUrl(searchTerm)
         /\ replaced' = << Written("search", SearchUrl(searchTerm)) >>
         /\ filteredArticles' = FilterByTopics(homeFiltered, selected)
  /\ phase' = "hydrating"
  /\ lastAction' = [op |-> "mount", arg |-> << >>]
  /\ before' = NoBefore
  /\ UNCHANGED << articles, location, homeFiltered, homeFilteredIsProp,
                  visibleCount, visibleTopicsCount, notFoundPushes >>

(***************************************************************************)
(* The effects of the second render: ArticlesList writes `topics` and      *)
(* checks for no results; HomePageContent, when `search` gave a non-empty  *)
(* term, reschedules the debounce and writes `search`.                     *)
(***************************************************************************)
HydrateEffects ==
  /\ phase = "hydrating"
  /\ notFoundPushes' =
       IF NoResultsRedirect(initialized, homeFiltered, filteredArticles)
         THEN notFoundPushes + 1 ELSE notFoundPushes
  /\ IF searchTerm # << >>
       THEN /\ timeouts' = Debounced(timeouts, searchTerm)
            /\ pendingUrl' = SearchUrl(searchTerm)
            /\ replaced' = << Written("topics", TopicsUrl(selectedTopics)),
                              Written("search", SearchUrl(searchTerm)) >>
       ELSE /\ timeouts' = timeouts
            /\ pendingUrl' = TopicsUrl(selectedTopics)
            /\ replaced' = << Written("topics", TopicsUrl(selectedTopics)) >>
  /\ phase' = "ready"
  /\ lastAction' = [op |-> "hydrate", arg |-> << >>]
  /\ before' = NoBefore
  /\ UNCHANGED << articles, location, searchTerm, homeFiltered,
                  homeFilteredIsProp, selectedTopics, visibleCount,
                  visibleTopicsCount, initialized, filteredArticles >>

\* the page is mounted and has not been sent away MaxPushes times
Ready == phase = "ready" /\ notFoundPushes < MaxPushes

\* the user acts on the page until it is sent to /404; timers and
\* navigations already under way still complete
OnPage == Ready /\ notFoundPushes = 0

(***************************************************************************)
(* HomePageContent: the search box.                                        *)
(***************************************************************************)
\* setSearchTerm(value), then the two effects that depend on searchTerm
SetSearchTerm(term) ==
  /\ searchTerm' = term
  /\ timeouts' = Debounced(timeouts, term)
  /\ pendingUrl' = SearchUrl(term)
  /\ replaced' = << Written("search", SearchUrl(term)) >>
  /\ before' = [NoBefore EXCEPT !.cancelled = (timeouts # << >>)]
  /\ UNCHANGED << articles, location, phase, homeFiltered, homeFilteredIsProp,
                  selectedTopics, visibleCount, visibleTopicsCount,
                  initialized, filteredArticles, notFoundPushes >>

\* onChange of the input
TypeSearch(term) ==
  /\ OnPage
  /\ term # searchTerm
  /\ SetSearchTerm(term)
  /\ lastAction' = [op |-> "type", arg |-> term]

\* onClick of the clear button, rendered while searchTerm is non-empty
ClearSearch ==
  /\ OnPage
  /\ searchTerm # << >>
  /\ SetSearchTerm(<< >>)
  /\ lastAction' = [op |-> "clearSearch", arg |-> << >>]

\* TimerFire with a render that also does setVisibleCount(10)
TimerFireResettingCount ==
  /\ Ready
  /\ timeouts # << >>
  /\ LET result == HandleSearch(Head(timeouts))
         \* setFilteredArticles(articles) on the same array changes nothing
         rerender == ~(Head(timeouts) = << >> /\ homeFilteredIsProp)
         filtered == FilterByTopics(result, selectedTopics)
     IN  /\ homeFiltered' = result
         /\ homeFilteredIsProp' = (Head(timeouts) = << >>)
         /\ filteredArticles' = filtered
         /\ notFoundPushes' =
              IF rerender /\ NoResultsRedirect(initialized, result, filtered)
                THEN notFoundPushes + 1 ELSE notFoundPushes
  /\ timeouts' = Tail(timeouts)
  /\ visibleCount' = PageSize
  /\ replaced' = << >>
  /\ lastAction' = [op |-> "timer", arg |-> Head(timeouts)]
  /\ before' = [NoBefore EXCEPT !.homeFiltered = homeFiltered]
  /\ UNCHANGED << articles, location, pendingUrl, phase, searchTerm,
                  selectedTopics, visibleTopicsCount,
                  initialized >>

\* the oldest pending timer expires and runs the callback with its term
TimerFire ==
  /\ Ready
  /\ timeouts # << >>
  /\ LET result == HandleSearch(Head(timeouts))
         \* setFilteredArticles(articles) on the same array changes nothing
         rerender == ~(Head(timeouts) = << >> /\ homeFilteredIsProp)
         filtered == FilterByTopics(result, selectedTopics)
     IN  /\ homeFiltered' = result
         /\ homeFilteredIsProp' = (Head(timeouts) = << >>)
         /\ filteredArticles' = filtered
         /\ notFoundPushes' =
              IF rerender /\ NoResultsRedirect(initialized, result, filtered)
                THEN notFoundPushes + 1 ELSE notFoundPushes
  /\ timeouts' = Tail(timeouts)
  /\ replaced' = << >>
  /\ lastAction' = [op |-> "timer", arg |-> Head(timeouts)]
  /\ before' = [NoBefore EXCEPT !.homeFiltered = homeFiltered]
  /\ UNCHANGED << articles, location, pendingUrl, phase, searchTerm,
                  selectedTopics, visibleCount, visibleTopicsCount,
                  initialized >>

(***************************************************************************)
(* ArticlesList: the topic buttons and pagination.                         *)
(***************************************************************************)
\* setSelectedTopics(next), the render, and the two effects that follow
SetSelectedTopics(next) ==
  LET filtered == FilterByTopics(homeFiltered, next)
      \* the memo returns the `articles` array itself for an empty selection
      sameArray == Len(selectedTopics) = 0 /\ Len(next) = 0
  IN  /\ selectedTopics' = next
      /\ filteredArticles' = filtered
      /\ pendingUrl' = TopicsUrl(next)
      /\ replaced' = << Written("topics", TopicsUrl(next)) >>
      /\ notFoundPushes' =
           IF ~sameArray /\ NoResultsRedirect(initialized, homeFiltered, filtered)
             THEN notFoundPushes + 1 ELSE notFoundPushes

\* ToggleTopic without setVisibleCount(10)
ToggleTopicKeepingCount(topic) ==
  /\ OnPage
  /\ ArrayIncludes(TopicsToShow, topic)
  /\ visibleCount' = visibleCount
  /\ SetSelectedTopics(ToggleNext(selectedTopics, topic))
  /\ lastAction' = [op |-> "toggle", arg |-> topic]
  /\ before' = [NoBefore EXCEPT
         !.selectedTopics = selectedTopics,
         !.visibleCount = visibleCount,
         !.original = IF lastAction = [op |-> "toggle", arg |-> topic]
                        THEN << before.selectedTopics >> ELSE << >>]
  /\ UNCHANGED << articles, location, phase, searchTerm, homeFiltered,
                  homeFilteredIsProp, timeouts, visibleTopicsCount, initialized >>

\* onClick of a topic button
ToggleTopic(topic) ==
  /\ OnPage
  /\ ArrayIncludes(TopicsToShow, topic)
  /\ visibleCount' = PageSize
  /\ SetSelectedTopics(ToggleNext(selectedTopics, topic))
  /\ lastAction' = [op |-> "toggle", arg |-> topic]
  /\ before' = [NoBefore EXCEPT
         !.selectedTopics = selectedTopics,
         !.visibleCount = visibleCount,
         !.original = IF lastAction = [op |-> "toggle", arg |-> topic]
                        THEN << before.selectedTopics >> ELSE << >>]
  /\ UNCHANGED << articles, location, phase, searchTerm, homeFiltered,
                  homeFilteredIsProp, timeouts, visibleTopicsCount, initialized >>

\* onClick of "All Topics" or "Clear Selection"
ClearSelection ==
  /\ OnPage
  /\ visibleCount' = PageSize
  /\ SetSelectedTopics(<< >>)
  /\ lastAction' = [op |-> "clear", arg |-> << >>]
  /\ before' = [NoBefore EXCEPT !.selectedTopics = selectedTopics,
                                !.visibleCount = visibleCount]
  /\ UNCHANGED << articles, location, phase, searchTerm, homeFiltered,
                  homeFilteredIsProp, timeouts, visibleTopicsCount, initialized >>

\* MoreTopics with a button still rendered when every topic is shown
MoreTopicsPastTheEnd ==
  /\ OnPage
  /\ visibleTopicsCount < Len(AllTopics(homeFiltered)) + PageSize
  /\ visibleTopicsCount' = visibleTopicsCount + PageSize
  /\ lastAction' = [op |-> "moreTopics", arg |-> << >>]
  /\ replaced' = << >>
  /\ before' = NoBefore
  /\ UNCHANGED << articles, location, pendingUrl, phase, searchTerm,
                  homeFiltered, homeFilteredIsProp, timeouts, selectedTopics,
                  visibleCount, initialized, filteredArticles,
                  notFoundPushes >>

\* onClick of "More Topics ...", rendered while topics are hidden
MoreTopics ==
  /\ OnPage
  /\ visibleTopicsCount < Len(AllTopics(homeFiltered))
  /\ visibleTopicsCount' = visibleTopicsCount + PageSize
  /\ lastAction' = [op |-> "moreTopics", arg |-> << >>]
  /\ replaced' = << >>
  /\ before' = NoBefore
  /\ UNCHANGED << articles, location, pendingUrl, phase, searchTerm,
                  homeFiltered, homeFilteredIsProp, timeouts, selectedTopics,
                  visibleCount, initialized, filteredArticles,
                  notFoundPushes >>

\* onClick of "Load More Articles", rendered while articles are hidden
LoadMore ==
  /\ OnPage
  /\ visibleCount < Len(filteredArticles)
  /\ visibleCount' = visibleCount + PageSize
  /\ lastAction' = [op |-> "loadMore", arg |-> << >>]
  /\ replaced' = << >>
  /\ before' = NoBefore
  /\ UNCHANGED << articles, location, pendingUrl, phase, searchTerm,
                  homeFiltered, homeFilteredIsProp, timeouts, selectedTopics,
                  visibleTopicsCount, initialized, filteredArticles,
                  notFoundPushes >>

(***************************************************************************)
(* The router commits the latest router.replace: the location changes.     *)
(* ArticlesList renders again (useSearchParams) and its initialization     *)
(* effect runs again; HomePageContent's initial read has no dependency and *)
(* does not.                                                               *)
(***************************************************************************)
CommitNavigation ==
  /\ Ready
  /\ pendingUrl.pending
  /\ location' = [search |-> pendingUrl.search, topics |-> pendingUrl.topics]
  /\ pendingUrl' = NoUrl
  /\ LET selected ==
           TopicsFromLocation(initialized, pendingUrl.topics, selectedTopics)
     IN  /\ selectedTopics' = selected
         /\ filteredArticles' = FilterByTopics(homeFiltered, selected)
  /\ lastAction' = [op |-> "navigate", arg |-> << >>]
  /\ replaced' = << >>
  /\ before' = NoBefore
  /\ UNCHANGED << articles, phase, searchTerm, homeFiltered,
                  homeFilteredIsProp, timeouts, visibleCount,
                  visibleTopicsCount, initialized, notFoundPushes >>

Next ==
  \/ MountEffects
  \/ HydrateEffects
  \/ \E term \in TermPool : TypeSearch(term)
  \/ ClearSearch
  \/ TimerFire
  \/ \E topic \in TopicPool : ToggleTopic(topic)
  \/ ClearSelection
  \/ MoreTopics
  \/ LoadMore
  \/ CommitNavigation

Spec == Init /\ [][Next]_vars

(***************************************************************************)
(* Vocabulary of the properties.                                           *)
(***************************************************************************)
Elems(seq) == { seq[i] : i \in 1..Len(seq) }

\* refs keeps the order of the full collection and repeats no article
InCollectionOrder(refs) ==
  \A i, j \in 1..Len(refs) : i < j => refs[i] < refs[j]

\* c and d are one letter, whatever their case
SameLetter(c, d) ==
  \/ c = d
  \/ { c, d } \in { { "a", "A" }, { "b", "B" } }

\* q occurs in s as a case-insensitive substring
ContainsIgnoringCase(s, q) ==
  \E offset \in 0..(Len(s) - Len(q)) :
    \A k \in 1..Len(q) : SameLetter(s[offset + k], q[k])

\* the article's title, or its description when it has one, contains q
ArticleContains(article, q) ==
  \/ ContainsIgnoringCase(article.title, q)
  \/ /\ article.description.present
     /\ ContainsIgnoringCase(article.description.value, q)

\* the article carries every selected topic
HasAllTopics(article, selected) ==
  \A k \in 1..Len(selected) : selected[k] \in Elems(article.topics)

\* seq without the occurrences of x, order kept
RECURSIVE Without(_, _)
Without(seq, x) ==
  IF seq = << >> THEN << >>
  ELSE IF seq[1] = x THEN Without(Tail(seq), x)
  ELSE << seq[1] >> \o Without(Tail(seq), x)

(***************************************************************************)
(* C1: when the debounce has settled on q (the timer has run the callback  *)
(* with q), the search-filtered collection is the subsequence, in the      *)
(* order of the full collection, of exactly the articles whose title or    *)
(* present description contains q as a case-insensitive substring.         *)
(***************************************************************************)
C1_SettledSearchIsMatchingSubsequence ==
  lastAction.op = "timer" =>
    /\ InCollectionOrder(homeFiltered)
    /\ Elems(homeFiltered) =
         { r \in 1..Len(articles) : ArticleContains(articles[r], lastAction.arg) }

\* a settled non-empty term in another case than the texts, keeping an
\* article matched by its description alone and dropping another one
C1_Witness ==
  /\ lastAction = [op |-> "timer", arg |-> << "b" >>]
  /\ \E r \in Elems(homeFiltered) :
       /\ ~ContainsIgnoringCase(articles[r].title, << "b" >>)
       /\ articles[r].description = Present(<< "B" >>)
  /\ Elems(homeFiltered) # Elems(AllRefs)

(***************************************************************************)
(* C2: when the search settles on the empty term after having settled on   *)
(* a term q, the search-filtered collection is the full collection again,  *)
(* in its original order.                                                  *)
(***************************************************************************)
C2_EmptyTermRestoresFullCollection ==
  (lastAction = [op |-> "timer", arg |-> << >>]) => homeFiltered = AllRefs

\* the empty term settles on a collection that a term had narrowed
C2_Witness ==
  /\ lastAction = [op |-> "timer", arg |-> << >>]
  /\ before.homeFiltered # AllRefs
  /\ homeFiltered = AllRefs
  /\ Len(articles) > 1

(***************************************************************************)
(* C3: filteredArticles is the subsequence, in input order, of exactly     *)
(* the input articles that carry every selected topic; for an empty        *)
(* selection it is the whole input collection.                             *)
(***************************************************************************)
C3_FilteredArticlesCarryAllSelectedTopics ==
  /\ InCollectionOrder(filteredArticles)
  /\ Elems(filteredArticles) =
       { r \in Elems(homeFiltered) : HasAllTopics(articles[r], selectedTopics) }
  /\ (selectedTopics = << >> => filteredArticles = homeFiltered)

\* two topics selected, an article with only one of them is left out and an
\* article with both is kept
C3_Witness ==
  /\ Elems(selectedTopics) = { TopicX, TopicY }
  /\ Len(filteredArticles) = 1
  /\ \E r \in Elems(homeFiltered) \ Elems(filteredArticles) :
       TopicX \in Elems(articles[r].topics)

(***************************************************************************)
(* C4: the topic filter is idempotent: filtering filteredArticles again    *)
(* by the same selection gives filteredArticles.                           *)
(***************************************************************************)
C4_TopicFilterIdempotent ==
  FilterByTopics(filteredArticles, selectedTopics) = filteredArticles

\* a selection that keeps some articles and drops others
C4_Witness ==
  /\ selectedTopics # << >>
  /\ filteredArticles # << >>
  /\ filteredArticles # homeFiltered

(***************************************************************************)
(* C5: for a selection of two topics t1, t2 the filtered articles are      *)
(* exactly those that the filter returns for t1 alone and for t2 alone.    *)
(***************************************************************************)
C5_TwoTopicsGiveIntersection ==
  Len(selectedTopics) = 2 =>
    Elems(filteredArticles) =
      Elems(FilterByTopics(homeFiltered, << selectedTopics[1] >>)) \cap
      Elems(FilterByTopics(homeFiltered, << selectedTopics[2] >>))

\* two different topics whose single results differ and intersect
C5_Witness ==
  /\ Len(selectedTopics) = 2
  /\ selectedTopics[1] # selectedTopics[2]
  /\ filteredArticles # << >>
  /\ FilterByTopics(homeFiltered, << selectedTopics[1] >>) #
       FilterByTopics(homeFiltered, << selectedTopics[2] >>)

(***************************************************************************)
(* C6: a toggle of topic t removes t from selectedTopics when t is         *)
(* present and appends t at the end otherwise; the other selected topics   *)
(* keep their relative order.                                              *)
(***************************************************************************)
C6_ToggleRemovesOrAppends ==
  [][lastAction'.op = "toggle" =>
       LET t == lastAction'.arg
       IN  IF t \in Elems(selectedTopics)
             THEN selectedTopics' = Without(selectedTopics, t)
             ELSE /\ Len(selectedTopics') = Len(selectedTopics) + 1
                  /\ selectedTopics'[Len(selectedTopics')] = t
                  /\ SubSeq(selectedTopics', 1, Len(selectedTopics)) =
                       selectedTopics]_vars

\* a topic appended behind another selected topic
C6_Witness ==
  /\ lastAction.op = "toggle"
  /\ before.selectedTopics # << >>
  /\ lastAction.arg \notin Elems(before.selectedTopics)
  /\ selectedTopics = Append(before.selectedTopics, lastAction.arg)

(***************************************************************************)
(* C7, as claimed: two toggles in a row of one topic t return              *)
(* selectedTopics to its original order and membership, wherever t sits    *)
(* (stated here for an original selection that holds no topic twice).      *)
(***************************************************************************)
C7_ToggleTwiceRestoresSelection ==
  (/\ lastAction.op = "toggle"
   /\ before.original # << >>
   /\ \A i, j \in 1..Len(before.original[1]) :
        before.original[1][i] = before.original[1][j] => i = j) =>
    selectedTopics = before.original[1]

(***************************************************************************)
(* C7, amended: two toggles in a row of one topic t return selectedTopics  *)
(* to its original membership; the sequence is the original one when t     *)
(* was not selected, and the original one without t followed by a single t *)
(* when t was selected.                                                    *)
(***************************************************************************)
C7_ToggleTwiceKeepsMembership ==
  (lastAction.op = "toggle" /\ before.original # << >>) =>
    LET t == lastAction.arg
        original == before.original[1]
    IN  /\ Elems(selectedTopics) = Elems(original)
        /\ t \notin Elems(original) => selectedTopics = original
        /\ t \in Elems(original) =>
             selectedTopics = Append(Without(original, t), t)

\* a selected topic that was not last has been toggled twice and now is last
C7_Witness ==
  /\ lastAction.op = "toggle"
  /\ before.original # << >>
  /\ Len(before.original[1]) > 1
  /\ before.original[1][1] = lastAction.arg
  /\ selectedTopics # before.original[1]

(***************************************************************************)
(* C8: after a toggle and after a clear visibleCount is 10, whatever it    *)
(* was; after a clear selectedTopics is empty.                             *)
(***************************************************************************)
C8_SelectionChangeResetsVisibleCount ==
  /\ lastAction.op \in { "toggle", "clear" } => visibleCount = 10
  /\ lastAction.op = "clear" => selectedTopics = << >>

\* a toggle on a list of which a second page had been loaded
C8_Witness ==
  /\ lastAction.op = "toggle"
  /\ before.visibleCount > 10
  /\ visibleCount = 10

(***************************************************************************)
(* C9: selectedTopics never holds a topic twice, whatever the initial      *)
(* location.                                                               *)
(***************************************************************************)
C9_NoDuplicateSelectedTopics ==
  \A i, j \in 1..Len(selectedTopics) :
    selectedTopics[i] = selectedTopics[j] => i = j

(***************************************************************************)
(* C10: router.push("/404") is called only when initialization has         *)
(* completed, the collection given to the topic filter is non-empty and    *)
(* filteredArticles is empty.                                              *)
(***************************************************************************)
C10_NotFoundOnlyForFilteredOutSource ==
  [][notFoundPushes' # notFoundPushes =>
       /\ initialized
       /\ initialized'
       /\ Len(homeFiltered') > 0
       /\ Len(filteredArticles') = 0]_vars

\* the search settles on a non-empty result none of which has the selected
\* topics, and the page is sent to /404
C10_Witness ==
  /\ lastAction.op = "timer"
  /\ notFoundPushes = 1
  /\ initialized
  /\ Len(homeFiltered) > 0
  /\ before.homeFiltered # homeFiltered
  /\ filteredArticles = << >>

(***************************************************************************)
(* C11: with a non-empty collection given to the topic filter, once        *)
(* initialization has completed and the selected topics exclude every      *)
(* article, router.push("/404") has been called, and it has been called    *)
(* exactly once however the empty result came to be derived again.         *)
(***************************************************************************)
C11_NotFoundRequestedExactlyOnce ==
  ( /\ phase = "ready"
    /\ Len(homeFiltered) > 0
    /\ Len(selectedTopics) > 0
    /\ Len(filteredArticles) = 0 ) => notFoundPushes = 1


(***************************************************************************)
(* C12: every selected topic is one of topicsToShow, so it has a button,   *)
(* also when it is not a topic of any article on the page; and a toggle of *)
(* that button removes it from the selection.                              *)
(***************************************************************************)
C12_SelectedTopicsHaveButtons ==
  \A t \in Elems(selectedTopics) :
    /\ ArrayIncludes(TopicsToShow, t)
    /\ ~ArrayIncludes(ToggleNext(selectedTopics, t), t)

\* a topic is selected that no article of the page carries: its button is
\* one of the extra ones
C12_Witness ==
  /\ phase = "ready"
  /\ \E t \in Elems(selectedTopics) :
       /\ ~ArrayIncludes(AllTopics(homeFiltered), t)
       /\ ArrayIncludes(ExtraTopics, t)
       /\ TopicsToShow # DisplayedTopics


(***************************************************************************)
(* C13: at most one timer of the debounced handleSearch is outstanding,    *)
(* whatever the order of keystrokes, clear clicks, the mount-time read of  *)
(* `search` and timer expiry: scheduling cancels the timer still pending.  *)
(***************************************************************************)
C13_AtMostOneTimeout == Len(timeouts) <= 1

\* a keystroke or a clear click arrived while a timer was pending: the
\* pending one was cancelled and the only timer left carries the new term
C13_Witness ==
  /\ lastAction.op \in { "type", "clearSearch" }
  /\ before.cancelled
  /\ timeouts = << lastAction.arg >>


(***************************************************************************)
(* C14: the debounce runs on the trailing edge only.  A keystroke sets     *)
(* searchTerm in its own step and leaves the search-filtered collection as *)
(* it was, with one timer pending for the typed term; the collection is    *)
(* recomputed only when the timer fires, and the timer that fires after a  *)
(* burst of keystrokes is the single one left, carrying the term typed     *)
(* last.                                                                   *)
(***************************************************************************)
C14_DebounceIsTrailingEdge ==
  [][ /\ lastAction'.op = "type" =>
           /\ searchTerm' = lastAction'.arg
           /\ homeFiltered' = homeFiltered
           /\ timeouts' = << searchTerm' >>
      /\ homeFiltered' # homeFiltered => lastAction'.op = "timer"
      /\ lastAction'.op = "timer" =>
           /\ timeouts = << searchTerm >>
           /\ lastAction'.arg = searchTerm
           /\ homeFiltered' = HandleSearch(searchTerm)
           /\ timeouts' = << >> ]_vars

\* a keystroke of a burst: it cancelled the timer of the keystroke before
\* it, and the collection on the page is not yet the one of the typed term
C14_Witness ==
  /\ lastAction.op = "type"
  /\ before.cancelled
  /\ searchTerm = lastAction.arg
  /\ timeouts = << searchTerm >>
  /\ homeFiltered # HandleSearch(searchTerm)


(***************************************************************************)
(* C15: the `search` parameter is rewritten only when the debounced term   *)
(* has settled: a keystroke, which may still be superseded by the next     *)
(* one, hands no URL to router.replace.                                    *)
(***************************************************************************)
C15_KeystrokeWritesNoSearch ==
  lastAction.op = "type" =>
    \A i \in 1..Len(replaced) : replaced[i].by # "search"


(***************************************************************************)
(* C16: the clear button bypasses the debounce: in the step of the click   *)
(* searchTerm becomes empty and the search-filtered collection is the full *)
(* collection again.                                                       *)
(***************************************************************************)
C16_ClearRestoresFullCollectionAtOnce ==
  lastAction.op = "clearSearch" =>
    /\ searchTerm = << >>
    /\ homeFiltered = AllRefs


(***************************************************************************)
(* C17 as stated: the mount effects make searchTerm the value of `search`  *)
(* (empty when absent) and selectedTopics the comma-split `topics`, empty  *)
(* only when the parameter is absent.                                      *)
(***************************************************************************)
C17_MountSplitsPresentTopics ==
  lastAction.op = "mount" =>
    /\ searchTerm =
         (IF location.search.present THEN location.search.value ELSE << >>)
    /\ selectedTopics =
         (IF location.topics.present
            THEN Split(location.topics.value) ELSE << >>)

(***************************************************************************)
(* C17: the mount effects make searchTerm the value of `search` (empty     *)
(* when absent) and selectedTopics the segments of `topics` between its    *)
(* commas, in the order given; selectedTopics is empty when `topics` is    *)
(* absent or is the empty string.                                          *)
(***************************************************************************)
C17_MountReadsLocation ==
  lastAction.op = "mount" =>
    /\ searchTerm =
         (IF location.search.present THEN location.search.value ELSE << >>)
    /\ IF location.topics.present /\ location.topics.value # << >>
         THEN /\ Join(selectedTopics) = location.topics.value
              /\ \A i \in 1..Len(selectedTopics) :
                   Comma \notin Elems(selectedTopics[i])
         ELSE selectedTopics = << >>

\* mounted with ?search=aB&topics=y,x: the term and the two topics, in the
\* order of the parameter and not in sorted order
C17_Witness ==
  /\ lastAction.op = "mount"
  /\ location.search = Present(<< "a", "B" >>)
  /\ searchTerm = << "a", "B" >>
  /\ selectedTopics = << TopicY, TopicX >>


(***************************************************************************)
(* C18: the read of the location at mount triggers no write-back: the      *)
(* effects of the first two renders, which run before any user action,     *)
(* hand no URL to router.replace.                                          *)
(***************************************************************************)
C18_MountIssuesNoLocationWrite ==
  lastAction.op \in { "mount", "hydrate" } => replaced = << >>


(***************************************************************************)
(* C19: once initialized, every change of selectedTopics is followed, in   *)
(* the effects of the same step, by a router.replace whose URL has         *)
(* `topics` set to the selected topics joined by commas in selection       *)
(* order, or has no `topics` when the selection is empty; the selection    *)
(* read at mount is written by the effects of the next render; and the     *)
(* effects that run while initialized is false write no `topics`.          *)
(***************************************************************************)
C19_SelectionChangeWritesTopics ==
  [][ LET WritesTopicsOf(selected) ==
            \E i \in 1..Len(replaced') :
              /\ replaced'[i].by = "topics"
              /\ IF selected = << >>
                   THEN replaced'[i].topics = Absent
                   ELSE /\ replaced'[i].topics.present
                        /\ Split(replaced'[i].topics.value) = selected
      IN  /\ (initialized /\ selectedTopics' # selectedTopics) =>
               WritesTopicsOf(selectedTopics')
          /\ phase = "hydrating" => WritesTopicsOf(selectedTopics')
          /\ ~initialized =>
               \A i \in 1..Len(replaced') : replaced'[i].by # "topics" ]_vars

\* a second topic has been selected: the URL handed to router.replace has
\* the two topics in the order of selection, which is not the sorted one
C19_Witness ==
  /\ lastAction.op = "toggle"
  /\ initialized
  /\ before.selectedTopics = << TopicY >>
  /\ selectedTopics = << TopicY, TopicX >>
  /\ \E i \in 1..Len(replaced) :
       /\ replaced[i].by = "topics"
       /\ replaced[i].topics = Present(<< "y", ",", "x" >>)


(***************************************************************************)
(* C20: the location is read into the state only at mount.  Once           *)
(* initialized, a change of the location (either component's write taking  *)
(* effect) changes neither selectedTopics nor searchTerm; selectedTopics   *)
(* changes only in a toggle or a clear of the selection, and searchTerm    *)
(* only in a keystroke or a click on the clear button.                     *)
(***************************************************************************)
C20_LocationReadOnlyAtMount ==
  [][ initialized =>
        /\ location' # location =>
             /\ selectedTopics' = selectedTopics
             /\ searchTerm' = searchTerm
        /\ selectedTopics' # selectedTopics =>
             lastAction'.op \in { "toggle", "clear" }
        /\ searchTerm' # searchTerm =>
             lastAction'.op \in { "type", "clearSearch" } ]_vars

\* a navigation has just put into the location a `topics` value that is
\* not the current selection, and the selection stayed as it was
C20_Witness ==
  /\ lastAction.op = "navigate"
  /\ initialized
  /\ location.topics.present
  /\ location.topics.value # << >>
  /\ Split(location.topics.value) # selectedTopics


(***************************************************************************)
(* C21: an empty-string segment of the `topics` parameter is inert: after  *)
(* the mount effects filteredArticles holds the articles that carry all    *)
(* the non-empty segments, and /404 is requested just when that is none of *)
(* a non-empty collection, as if the parameter had no empty segment.       *)
(***************************************************************************)
C21_EmptyTopicSegmentIsInert ==
  lastAction.op = "hydrate" =>
    LET segments == Without(selectedTopics, << >>)
        expected == { r \in Elems(homeFiltered) :
                        HasAllTopics(articles[r], segments) }
    IN  /\ Elems(filteredArticles) = expected
        /\ notFoundPushes = 1 <=>
             (Len(homeFiltered) > 0 /\ Len(segments) > 0 /\ expected = {})


(***************************************************************************)
(* C22: visibleTopicsCount is 10 when the page is constructed, changes     *)
(* only by "More Topics", which adds exactly 10, and that button acts only *)
(* while visibleTopicsCount is less than the number of distinct topics of  *)
(* the articles given to the list.                                         *)
(***************************************************************************)
C22_MoreTopicsAddsTenWhileHidden ==
  [][ LET distinct == UNION { Elems(articles[r].topics) :
                                r \in Elems(homeFiltered) }
      IN  /\ phase = "constructed" => visibleTopicsCount = 10
          /\ visibleTopicsCount' # visibleTopicsCount =>
               lastAction'.op = "moreTopics"
          /\ lastAction'.op = "moreTopics" =>
               /\ visibleTopicsCount' = visibleTopicsCount + 10
               /\ visibleTopicsCount < Cardinality(distinct) ]_vars

\* eleven topics, ten shown: after "More Topics" all are shown and the
\* button is no longer rendered
C22_Witness ==
  /\ lastAction.op = "moreTopics"
  /\ visibleTopicsCount = 20
  /\ Len(AllTopics(homeFiltered)) = 11
  /\ DisplayedTopics = AllTopics(homeFiltered)


(***************************************************************************)
(* C23: visibleCount is 10 when the page is constructed; "Load More"       *)
(* adds exactly 10 and acts only while visibleCount is less than the       *)
(* number of filtered articles; the rendered articles are the first        *)
(* min(visibleCount, |filteredArticles|) entries of filteredArticles, in   *)
(* order.                                                                  *)
(***************************************************************************)
C23_LoadMoreAddsTenWhileHidden ==
  [][ LET shown == IF visibleCount' < Len(filteredArticles')
                     THEN visibleCount' ELSE Len(filteredArticles')
      IN  /\ phase = "constructed" => visibleCount = 10
          /\ lastAction'.op = "loadMore" =>
               /\ visibleCount' = visibleCount + 10
               /\ visibleCount < Len(filteredArticles)
          /\ Len(DisplayedArticles') = shown
          /\ \A i \in 1..shown :
               DisplayedArticles'[i] = filteredArticles'[i] ]_vars

\* eleven filtered articles, ten rendered: after "Load More" all eleven
\* are rendered and the button is no longer rendered
C23_Witness ==
  /\ lastAction.op = "loadMore"
  /\ visibleCount = 20
  /\ Len(filteredArticles) = 11
  /\ DisplayedArticles = filteredArticles


(***************************************************************************)
(* C24: allTopics is the sorted sequence, without repeats, of the topics   *)
(* of the full article collection, whatever the search term has narrowed   *)
(* the articles to.                                                        *)
(***************************************************************************)
C24_AllTopicsOfFullCollection ==
  LET all == AllTopics(homeFiltered)
  IN  /\ \A i, j \in 1..Len(all) : i < j => StringLess(all[i], all[j])
      /\ Elems(all) =
           UNION { Elems(articles[r].topics) : r \in 1..Len(articles) }


(***************************************************************************)
(* C25: no write of one component loses the value the other wrote last.    *)
(* Once the mount effects have run, the topics effect has written the      *)
(* selection and the search effect the term: the URL of a search write     *)
(* carries `topics` for the current selection, and the URL of a topics     *)
(* write carries `search` for the current term.                            *)
(***************************************************************************)
C25_WritesKeepOtherParameter ==
  phase = "ready" =>
    \A i \in 1..Len(replaced) :
      /\ replaced[i].by = "search" =>
           replaced[i].topics =
             (IF selectedTopics = << >>
                THEN Absent ELSE Present(Join(selectedTopics)))
      /\ replaced[i].by = "topics" =>
           replaced[i].search =
             (IF searchTerm = << >> THEN Absent ELSE Present(searchTerm))


(***************************************************************************)
(* C26: in a quiescent state (mounted and initialized, no debounce timer   *)
(* pending, no router.replace waiting to be committed) the location        *)
(* mirrors the state: `search` is searchTerm, or absent when it is empty;  *)
(* `topics` is the selected topics joined by commas, or absent when none   *)
(* is selected; and the search-filtered collection holds exactly the       *)
(* articles that match searchTerm.                                         *)
(***************************************************************************)
C26_QuiescentLocationMirrorsState ==
  ( /\ phase = "ready"
    /\ initialized
    /\ timeouts = << >>
    /\ ~pendingUrl.pending ) =>
      /\ location.search =
           (IF searchTerm = << >> THEN Absent ELSE Present(searchTerm))
      /\ location.topics =
           (IF selectedTopics = << >>
              THEN Absent ELSE Present(Join(selectedTopics)))
      /\ Elems(homeFiltered) =
           { r \in 1..Len(articles) : ArticleContains(articles[r], searchTerm) }


(***************************************************************************)
(* C27: the search-filtered collection is always the search filter of the  *)
(* full collection for a term that searchTerm has held.  The mount effects *)
(* leave it the full collection (the filter for the initial empty term)    *)
(* even when the location carries `search`; afterwards it is replaced only *)
(* when the timer fires, by the articles of the full collection, in order, *)
(* that match the value searchTerm has at that moment.                     *)
(***************************************************************************)
C27_FilteredByATermHeld ==
  [][ /\ lastAction'.op \in { "mount", "hydrate" } =>
           homeFiltered' = [r \in 1..Len(articles) |-> r]
      /\ lastAction'.op = "timer" =>
           /\ InCollectionOrder(homeFiltered')
           /\ Elems(homeFiltered') =
                { r \in 1..Len(articles) :
                    ArticleContains(articles[r], searchTerm) }
      /\ lastAction'.op \notin { "mount", "hydrate", "timer" } =>
           homeFiltered' = homeFiltered ]_vars

\* mounted with ?search=aB: the term is in the box, the timer is pending
\* and the page still shows the full collection, which the term narrows
C27_Witness ==
  /\ lastAction.op = "hydrate"
  /\ location.search = Present(<< "a", "B" >>)
  /\ searchTerm = << "a", "B" >>
  /\ timeouts = << searchTerm >>
  /\ homeFiltered = AllRefs
  /\ \E r \in 1..Len(articles) : ~ArticleContains(articles[r], searchTerm)


(***************************************************************************)
(* C28: when the search settles (the timer fires) on an empty result,      *)
(* router.push("/404") is not called, whatever topics are selected; when   *)
(* it settles on a new, non-empty result none of whose articles has all    *)
(* the selected topics, router.push("/404") is called, in that step and    *)
(* with no topic action; and a settling search calls it in no other case.  *)
(***************************************************************************)
C28_SearchResultAndNotFound ==
  [][ lastAction'.op = "timer" =>
        LET noneSelected ==
              \A r \in Elems(homeFiltered') :
                ~HasAllTopics(articles[r], selectedTopics)
        IN  /\ homeFiltered' = << >> => notFoundPushes' = notFoundPushes
            /\ ( /\ homeFiltered' # homeFiltered
                 /\ homeFiltered' # << >>
                 /\ noneSelected ) => notFoundPushes' = notFoundPushes + 1
            /\ notFoundPushes' # notFoundPushes =>
                 (homeFiltered' # << >> /\ noneSelected) ]_vars

\* the page showed an article with the selected topics; the search settled
\* on other articles, none with those topics, and the page was sent to /404
C28_Witness ==
  /\ lastAction.op = "timer"
  /\ notFoundPushes = 1
  /\ selectedTopics # << >>
  /\ \E r \in Elems(before.homeFiltered) :
       HasAllTopics(articles[r], selectedTopics)
  /\ homeFiltered # << >>
  /\ \A r \in Elems(homeFiltered) : ~HasAllTopics(articles[r], selectedTopics)


(***************************************************************************)
(* C29: a change of the search-filtered collection given to the article    *)
(* list leaves selectedTopics, visibleCount and visibleTopicsCount as they *)
(* were; visibleCount goes down only in a toggle or a clear of the         *)
(* selection (so it can exceed the number of filtered articles after a     *)
(* search change).                                                         *)
(***************************************************************************)
C29_SearchChangeKeepsListState ==
  [][ /\ homeFiltered' # homeFiltered =>
           /\ selectedTopics' = selectedTopics
           /\ visibleCount' = visibleCount
           /\ visibleTopicsCount' = visibleTopicsCount
      /\ visibleCount' < visibleCount =>
           lastAction'.op \in { "toggle", "clear" } ]_vars

\* the search has narrowed a list of which twenty articles were visible
\* to fewer than twenty: visibleCount exceeds the number of filtered ones
C29_Witness ==
  /\ lastAction.op = "timer"
  /\ before.homeFiltered # homeFiltered
  /\ Len(before.homeFiltered) > Len(homeFiltered)
  /\ visibleCount = 20
  /\ Len(filteredArticles) > 0
  /\ visibleCount > Len(filteredArticles)


(***************************************************************************)
(* C30: visibleCount and visibleTopicsCount are positive multiples of 10;  *)
(* visibleTopicsCount never decreases; and while the collection given to   *)
(* the list stays the same, visibleTopicsCount stays 10 or less than       *)
(* |allTopics| + 10, and visibleCount stays 10 or less than                *)
(* |filteredArticles| + 10.                                                *)
(***************************************************************************)
C30_CountsAreBoundedMultiplesOfTen ==
  [][ LET TopicsBound(count, arts) ==
            count = 10 \/ count < Len(AllTopics(arts)) + 10
          ArticlesBound(count, filtered) ==
            count = 10 \/ count < Len(filtered) + 10
      IN  /\ \A n \in { visibleCount, visibleCount',
                         visibleTopicsCount, visibleTopicsCount' } :
               n > 0 /\ n % 10 = 0
          /\ visibleTopicsCount' >= visibleTopicsCount
          /\ homeFiltered' = homeFiltered =>
               /\ TopicsBound(visibleTopicsCount, homeFiltered) =>
                    TopicsBound(visibleTopicsCount', homeFiltered')
               /\ ArticlesBound(visibleCount, filteredArticles) =>
                    ArticlesBound(visibleCount', filteredArticles') ]_vars

\* all eleven topics have been revealed and one of the revealed ones has
\* then been toggled: visibleTopicsCount is still 20
C30_Witness ==
  /\ lastAction.op = "toggle"
  /\ visibleTopicsCount = 20
  /\ visibleCount = 10
  /\ Len(AllTopics(homeFiltered)) = 11
  /\ ArrayIncludes(selectedTopics, lastAction.arg)

=============================================================================
